---- MODULE Spec2Model ----
(***************************************************************************)
(* GreaseTools value functions (src/src/values.ts) over the two backends   *)
(* they use: the Greasemonkey store (GM.getValue / GM.setValue) and the    *)
(* page's localStorage.                                                    *)
(*                                                                         *)
(* JavaScript values are records [typ, lit]: typ is the result of typeof,  *)
(* lit the text String(v) gives.  undefined and null are values too.       *)
(***************************************************************************)
EXTENDS Naturals, Sequences, FiniteSets, TLC

\* ------------------------------------------------------------------ bounds
\* Entries the two stores hold, together, when the script starts.
MaxStored == 1
\* getValues calls a run makes, one after the other.
MaxCalls == 1
\* Operations a run makes on the proxies: assignments, reads, foreign writes;
\* deleteValue calls a run makes; applications of a helper a run makes.
MaxOps == 2
\* Entries the two stores hold, together, when deleteValue is first called.
MaxDeleteStored == 2
\* readystatechange events the host delivers for one request.
MaxEvents == 4

\* ------------------------------------------------------- JavaScript values
Undef == [typ |-> "undefined", lit |-> "undefined"]
Null == [typ |-> "object", lit |-> "null"]
Str(s) == [typ |-> "string", lit |-> s]
Num(s) == [typ |-> "number", lit |-> s]
Bool(s) == [typ |-> "boolean", lit |-> s]

typeof(v) == v.typ

\* ToBoolean: undefined, null, "", 0 and false are the falsy values used here.
Truthy(v) == v \notin {Undef, Null, Str(""), Num("0"), Bool("false")}

\* String(v), the conversion localStorage.setItem applies to its value.
String(v) == Str(v.lit)

\* a ?? b
Coalesce(a, b) == IF a \in {Undef, Null} THEN b ELSE a

\* ------------------------------------------------------------- the domains
\* Logical keys, in the order Object.entries lists them.
KeyOrder == <<"a", "b">>
Keys == {KeyOrder[i] : i \in 1..Len(KeyOrder)}

\* Values of the id argument: omitted/undefined, the empty string, a namespace.
IdValues == {Undef, Str(""), Str("ns")}

\* GM.Value = string | number | boolean
StoredGMValues == {Str("x"), Num("0")}
StoredLSValues == {Str("x"), Str("")}
DefaultValues == {Str("d"), Num("0")}

\* The grants getValues asks for.
GrantNames == {"getValue", "setValue"}

\* ---------------------------------------------------------------- helpers
\* a prefixKey that leaves the separator out
prefixKeyNoDot(key, prefix) ==
    IF Truthy(prefix) THEN prefix.lit \o key ELSE key

prefixKey(key, prefix) ==
    IF Truthy(prefix) THEN prefix.lit \o "." \o key ELSE key

\* Every key the calls of this model can touch in a store.
PKeys == {prefixKey(k, id) : k \in Keys, id \in IdValues}

\* The host global GM: a falsy value, or an object exposing some grants.
GMHosts == {[live |-> FALSE, grants |-> {}]}
             \cup {[live |-> TRUE, grants |-> g] : g \in SUBSET GrantNames}

checkGrants(GM, grants) ==
    IF ~GM.live THEN FALSE
    ELSE IF \E grant \in grants : grant \notin GM.grants THEN FALSE
    ELSE TRUE

\* ensureString that checks nothing
ensureStringSkipped(values) == TRUE

\* ensureString that is content with one string among the values
ensureStringSome(values) ==
    values = {} \/ \E value \in values : typeof(value) = "string"

\* ensureString: TRUE when it returns, FALSE when it throws the TypeError.
ensureString(values) == \A value \in values : typeof(value) = "string"

\* Object.values / Object.keys / Object.entries of a defaults object.
ObjectValues(obj) == {obj[k] : k \in DOMAIN obj}
ObjectKeys(obj) == SelectSeq(KeyOrder, LAMBDA k : k \in DOMAIN obj)

\* All defaults objects over the logical keys.
DefaultSets == UNION {[ks -> DefaultValues] : ks \in SUBSET Keys}

EmptyObject == [k \in {} |-> Undef]

\* ------------------------------------------------------------------ state
VARIABLES
    GM,             \* the host global the grants are looked up on
    gmStore,        \* the Greasemonkey store: physical key -> value, Undef when absent
    localStorage,   \* the page's localStorage: key -> string, Null when absent
    call,           \* the arguments of the getValues call in progress
    grants,         \* getValues' local `grants`
    promise,        \* the promise getValues returned: none, pending, resolved, rejected
    reason,         \* what it was rejected with
    task,           \* per key, where its getWithDefault promise stands
    retrieved,      \* per key, the value its getWithDefault promise resolved with
    returnedValues, \* the object the getValues promise resolved with
    gmStore0,       \* history: the Greasemonkey store when the call was made
    localStorage0,  \* history: localStorage when the call was made
    ops,            \* history: the backend operations the call has issued
    failed,         \* history: the backend operations of the call that failed
    calls           \* history: the calls made so far

\* The proxies valuesProxy and valuesGetProxy make over one values object.
VARIABLES
    target,         \* the values object both proxies wrap
    pxId,           \* the id the proxies were made with
    pxCallback,     \* whether valuesProxy was given a callback
    wGrants,        \* valuesProxy's `grants`
    gGrants,        \* valuesGetProxy's `grants`
    gmWrites,       \* the GM.setValue calls of valuesProxy, in dispatch order, each
                    \* with its promise's status and (history) the property assigned
    lsWrites,       \* the localStorage.setItem calls of valuesProxy, in order
    cbCalls,        \* the callback invocations: the index in gmWrites of the promise passed
    gRead,          \* the promise of the last read through valuesGetProxy
    gReads,         \* history: the backend reads valuesGetProxy issued, in order
    last,           \* history: the last operation made on a proxy and its result
    nops            \* history: the operations made so far

\* deleteValue on that values object, and the helpers applied on their own.
VARIABLES
    del,            \* the promise of the last deleteValue call and its GM.deleteValue
    dels,           \* history: the backend deletes deleteValue issued, in order
    applied         \* history: the applications of checkGrants or prefixKey made

\* xhrPromise, and getConfigValues, the getValues of the first versions.
VARIABLES
    xhr,              \* the promise of the xhrPromise call, its lastState, and
                      \* (history) the requests dispatched and the events delivered
    config,           \* getConfigValues' `config`: the defaults object it was given
    optionsRetrieved  \* getConfigValues' `optionsRetrieved`

gvVars == <<call, grants, promise, reason, task, retrieved, returnedValues,
            gmStore0, localStorage0, ops, failed, calls>>

deleteVars == <<del, dels>>

xhrConfigVars == <<xhr, config, optionsRetrieved>>

proxyVars == <<target, pxId, pxCallback, wGrants, gGrants, gmWrites, lsWrites,
               cbCalls, gRead, gReads, last, nops, del, dels, applied, xhrConfigVars>>

vars == <<GM, gmStore, localStorage, call, grants, promise, reason, task,
          retrieved, returnedValues, gmStore0, localStorage0, ops, failed, calls,
          target, pxId, pxCallback, wGrants, gGrants, gmWrites, lsWrites,
          cbCalls, gRead, gReads, last, nops, del, dels, applied, xhrConfigVars>>

NoRead == [state |-> "none", prop |-> "", value |-> Undef]
NoOp == [op |-> "none", prop |-> "", value |-> Undef, result |-> "none"]
NoXhr == [state |-> "none", reason |-> "", lastState |-> 0, sent |-> 0,
          events |-> <<>>, response |-> 0]
NoDelete == [state |-> "none", host |-> "none", prop |-> "", id |-> Undef,
             key |-> "", value |-> EmptyObject]

\* No proxy has been made.
NoProxy ==
    /\ target = EmptyObject
    /\ pxId = Undef
    /\ pxCallback = FALSE
    /\ wGrants = FALSE
    /\ gGrants = FALSE
    /\ gmWrites = <<>>
    /\ lsWrites = <<>>
    /\ cbCalls = <<>>
    /\ gRead = NoRead
    /\ gReads = <<>>
    /\ last = NoOp
    /\ nops = 0
    /\ del = NoDelete
    /\ dels = <<>>
    /\ applied = {}
    /\ xhr = NoXhr
    /\ config = EmptyObject
    /\ optionsRetrieved = EmptyObject

NoCall == [defaults |-> EmptyObject, id |-> Undef, setDefaults |-> FALSE, argc |-> 0]
NoTasks == [k \in Keys |-> "none"]
NoRetrieved == [k \in Keys |-> Undef]

Stored(gm, ls) ==
    Cardinality({k \in PKeys : gm[k] # Undef}) + Cardinality({k \in PKeys : ls[k] # Null})

Init ==
    /\ GM \in GMHosts
    /\ gmStore \in [PKeys -> StoredGMValues \cup {Undef}]
    /\ localStorage \in [PKeys -> StoredLSValues \cup {Null}]
    /\ Stored(gmStore, localStorage) <= MaxStored
    /\ call = NoCall
    /\ grants = FALSE
    /\ promise = "none"
    /\ reason = ""
    /\ task = NoTasks
    /\ retrieved = NoRetrieved
    /\ returnedValues = EmptyObject
    /\ gmStore0 = gmStore
    /\ localStorage0 = localStorage
    /\ ops = {}
    /\ failed = {}
    /\ calls = 0
    /\ NoProxy

\* -------------------------------------------------------------- getValues
\* The backend choice of getValues: its `grants` local.
useGrants(host, setDefaults) ==
    IF setDefaults THEN checkGrants(host, {"getValue"})
    ELSE checkGrants(host, {"getValue", "setValue"})

\* getWithDefault: the key GM.getValue is called with.
gmReadKey(key, id) == prefixKey(key, id)

\* a write-back that puts every default under one key
gmWriteKeyShared(key, id) == "a"

\* getWithDefault: the key GM.setValue is called with.
gmWriteKey(key, id) == key

\* a found-test that takes only null for absent
gmFoundNotNull(value) == value # Null

\* getWithDefault: `if (value)`, the value counts as found.
gmFound(value) == Truthy(value)

\* a write-back that ignores setDefaults
gmSetsDefaultAlways(setDefaults) == TRUE

\* a write-back made when setDefaults is false
gmSetsDefaultNegated(setDefaults) == ~setDefaults

\* getWithDefault: `if (setDefaults)`, the default is written back.
gmSetsDefault(setDefaults) == setDefaults

\* localStorage branch: the key getItem and setItem are called with.
lsKey(key, id) == key

\* a localStorage write-back that ignores setDefaults
lsSetsDefaultAlways(value, setDefaults) == value = Null

\* localStorage branch: `value === null && setDefaults`, the default is written.
lsSetsDefault(value, setDefaults) == value = Null /\ setDefaults

Op(api, pkey, key) == [api |-> api, key |-> pkey, for |-> key]

\* The loop of the localStorage branch over Object.entries(defaults), from
\* the state st = [ls, rv, ops]: storage, returnedValues, operations issued.
RECURSIVE lsLoop(_, _, _, _, _)
lsLoop(keys, defaults, id, setDefaults, st) ==
    IF keys = <<>> THEN st
    ELSE
        LET key == Head(keys)
            defaultValue == defaults[key]
            value == st.ls[lsKey(key, id)]
            sets == lsSetsDefault(value, setDefaults)
            ls1 == IF sets
                   THEN [st.ls EXCEPT ![lsKey(key, id)] = String(defaultValue)]
                   ELSE st.ls
            ops1 == st.ops \cup {Op("localStorage.getItem", lsKey(key, id), key)}
                      \cup (IF sets
                            THEN {Op("localStorage.setItem", lsKey(key, id), key)}
                            ELSE {})
            rv1 == (key :> Coalesce(value, defaultValue)) @@ st.rv
        IN  lsLoop(Tail(keys), defaults, id, setDefaults,
                   [ls |-> ls1, rv |-> rv1, ops |-> ops1])

\* The call getValues(defaults, id, setDefaults) up to the return of the
\* promise: the executor runs synchronously.  argc is the number of arguments
\* passed; a parameter that is not passed takes its default value.
getValues(defaults, argc, idArg, sdArg) ==
    LET id == IF argc >= 2 THEN idArg ELSE Undef
        setDefaults == IF argc >= 3 THEN sdArg ELSE FALSE
        g == useGrants(GM, setDefaults)
        done == lsLoop(ObjectKeys(defaults), defaults, id, setDefaults,
                       [ls |-> localStorage, rv |-> EmptyObject, ops |-> {}])
    IN  /\ calls < MaxCalls
        /\ calls' = calls + 1
        /\ call' = [defaults |-> defaults, id |-> id,
                    setDefaults |-> setDefaults, argc |-> argc]
        /\ grants' = g
        /\ gmStore0' = gmStore
        /\ localStorage0' = localStorage
        /\ failed' = {}
        /\ retrieved' = NoRetrieved
        /\ UNCHANGED <<GM, gmStore>>
        /\ UNCHANGED proxyVars
        /\ IF ~g /\ ~ensureString(ObjectValues(defaults))
           THEN \* ensureString throws inside the executor
                /\ promise' = "rejected"
                /\ reason' = "TypeError"
                /\ ops' = {}
                /\ task' = NoTasks
                /\ UNCHANGED <<localStorage, returnedValues>>
           ELSE IF g
           THEN \* every getWithDefault runs up to its await of GM.getValue
                /\ promise' = "pending"
                /\ task' = [k \in Keys |->
                              IF k \in DOMAIN defaults THEN "getValue" ELSE "none"]
                /\ ops' = {Op("GM.getValue", gmReadKey(k, id), k) : k \in DOMAIN defaults}
                /\ UNCHANGED <<localStorage, returnedValues, reason>>
           ELSE \* the localStorage branch runs to its resolve
                /\ promise' = "resolved"
                /\ localStorage' = done.ls
                /\ returnedValues' = done.rv
                /\ ops' = done.ops
                /\ task' = NoTasks
                /\ UNCHANGED reason

\* GM.getValue of key k settles with the stored value; getWithDefault goes on
\* to its resolve or to its await of GM.setValue.
GetValueSettles(k) ==
    LET value == gmStore[gmReadKey(k, call.id)]
    IN  /\ promise = "pending"
        /\ task[k] = "getValue"
        /\ IF gmFound(value)
           THEN /\ task' = [task EXCEPT ![k] = "resolved"]
                /\ retrieved' = [retrieved EXCEPT ![k] = value]
                /\ UNCHANGED ops
           ELSE IF gmSetsDefault(call.setDefaults)
           THEN IF "setValue" \in GM.grants
                THEN /\ task' = [task EXCEPT ![k] = "setValue"]
                     /\ ops' = ops \cup {Op("GM.setValue", gmWriteKey(k, call.id), k)}
                     /\ UNCHANGED retrieved
                ELSE \* GM.setValue is not a function: the async executor throws
                     /\ task' = [task EXCEPT ![k] = "thrown"]
                     /\ UNCHANGED <<ops, retrieved>>
           ELSE /\ task' = [task EXCEPT ![k] = "resolved"]
                /\ retrieved' = [retrieved EXCEPT ![k] = call.defaults[k]]
                /\ UNCHANGED ops
        /\ UNCHANGED <<GM, gmStore, localStorage, call, grants, promise, reason,
                       returnedValues, gmStore0, localStorage0, failed, calls>>
        /\ UNCHANGED proxyVars

\* a getWithDefault that asks again when the host rejects its read
GetValueRejectsRetries(k) ==
    /\ promise = "pending"
    /\ task[k] = "getValue"
    /\ failed' = failed \cup {Op("GM.getValue", gmReadKey(k, call.id), k)}
    /\ UNCHANGED <<GM, gmStore, localStorage, call, grants, promise, reason, task,
                   retrieved, returnedValues, gmStore0, localStorage0, ops, calls>>
    /\ UNCHANGED proxyVars

\* The host rejects GM.getValue of key k: the await throws inside the async
\* executor, whose promise nobody handles; resolve is never called.
GetValueRejects(k) ==
    /\ promise = "pending"
    /\ task[k] = "getValue"
    /\ task' = [task EXCEPT ![k] = "thrown"]
    /\ failed' = failed \cup {Op("GM.getValue", gmReadKey(k, call.id), k)}
    /\ UNCHANGED <<GM, gmStore, localStorage, call, grants, promise, reason,
                   retrieved, returnedValues, gmStore0, localStorage0, ops, calls>>
    /\ UNCHANGED proxyVars

\* GM.setValue of key k settles: the default is stored, getWithDefault resolves.
SetValueSettles(k) ==
    /\ promise = "pending"
    /\ task[k] = "setValue"
    /\ gmStore' = [gmStore EXCEPT ![gmWriteKey(k, call.id)] = call.defaults[k]]
    /\ task' = [task EXCEPT ![k] = "resolved"]
    /\ retrieved' = [retrieved EXCEPT ![k] = call.defaults[k]]
    /\ UNCHANGED <<GM, localStorage, call, grants, promise, reason,
                   returnedValues, gmStore0, localStorage0, ops, failed, calls>>
    /\ UNCHANGED proxyVars

\* The host rejects GM.setValue of key k.
SetValueRejects(k) ==
    /\ promise = "pending"
    /\ task[k] = "setValue"
    /\ task' = [task EXCEPT ![k] = "thrown"]
    /\ failed' = failed \cup {Op("GM.setValue", gmWriteKey(k, call.id), k)}
    /\ UNCHANGED <<GM, gmStore, localStorage, call, grants, promise, reason,
                   retrieved, returnedValues, gmStore0, localStorage0, ops, calls>>
    /\ UNCHANGED proxyVars

\* a fan-in that is content with one resolved promise (Promise.race / any)
anyResolved(keys) == \E k \in keys : task[k] = "resolved"

\* Promise.all: every promise of the list has resolved.
allResolved(keys) == \A k \in keys : task[k] = "resolved"

\* The then-callback of Promise.all(promises) builds the object and resolves.
PromiseAllThen ==
    /\ promise = "pending"
    /\ allResolved(DOMAIN call.defaults)
    /\ returnedValues' = [k \in DOMAIN call.defaults |-> retrieved[k]]
    /\ promise' = "resolved"
    /\ UNCHANGED <<GM, gmStore, localStorage, call, grants, reason, task,
                   retrieved, gmStore0, localStorage0, ops, failed, calls>>
    /\ UNCHANGED proxyVars

\* The caller has seen the promise settle and goes on.
Return ==
    /\ promise \in {"resolved", "rejected"}
    /\ promise' = "none"
    /\ call' = NoCall
    /\ grants' = FALSE
    /\ reason' = ""
    /\ task' = NoTasks
    /\ retrieved' = NoRetrieved
    /\ returnedValues' = EmptyObject
    /\ gmStore0' = gmStore
    /\ localStorage0' = localStorage
    /\ ops' = {}
    /\ failed' = {}
    /\ UNCHANGED <<GM, gmStore, localStorage, calls>>
    /\ UNCHANGED proxyVars

\* The script calls getValues when no call is in progress.
Next ==
    \/ \E defaults \in DefaultSets, argc \in 1..3, idArg \in IdValues, sdArg \in BOOLEAN :
          promise = "none" /\ getValues(defaults, argc, idArg, sdArg)
    \/ \E k \in Keys : GetValueSettles(k)
    \/ \E k \in Keys : GetValueRejects(k)
    \/ \E k \in Keys : SetValueSettles(k)
    \/ \E k \in Keys : SetValueRejects(k)
    \/ PromiseAllThen
    \/ Return

Spec == Init /\ [][Next]_vars

\* ---------------------------------------------- valuesProxy, valuesGetProxy
\* Values objects the proxies are made over.
TargetSets == UNION {[ks -> {Str("d")}] : ks \in (SUBSET Keys) \ {{}}}

\* Values assigned through valuesProxy.
WriteValues == {Str("w"), Num("1")}

\* valuesProxy: its `grants`.
proxyGrants(host) == checkGrants(host, {"setValue"})

\* valuesGetProxy: its `grants`.
getProxyGrants(host) == checkGrants(host, {"getValue"})

\* valuesProxy and valuesGetProxy have been called on one values object with
\* one id; the stores are empty, getValues is not running.
ProxyInit ==
    /\ GM \in GMHosts
    /\ gmStore = [pk \in PKeys |-> Undef]
    /\ localStorage = [pk \in PKeys |-> Null]
    /\ call = NoCall
    /\ grants = FALSE
    /\ promise = "none"
    /\ reason = ""
    /\ task = NoTasks
    /\ retrieved = NoRetrieved
    /\ returnedValues = EmptyObject
    /\ gmStore0 = gmStore
    /\ localStorage0 = localStorage
    /\ ops = {}
    /\ failed = {}
    /\ calls = 0
    /\ target \in TargetSets
    /\ pxId \in IdValues
    /\ pxCallback \in BOOLEAN
    /\ wGrants = proxyGrants(GM)
    /\ gGrants = getProxyGrants(GM)
    /\ gmWrites = <<>>
    /\ lsWrites = <<>>
    /\ cbCalls = <<>>
    /\ gRead = NoRead
    /\ gReads = <<>>
    /\ last = NoOp
    /\ nops = 0
    /\ del = NoDelete
    /\ dels = <<>>
    /\ applied = {}
    /\ xhr = NoXhr
    /\ config = EmptyObject
    /\ optionsRetrieved = EmptyObject

\* `prop in target`
has(obj, prop) == prop \in DOMAIN obj

\* a set trap that leaves the object alone
reflectSetNothing(obj, prop, value) == obj

\* Reflect.set(target, prop, value) on a plain object
reflectSet(obj, prop, value) == (prop :> value) @@ obj

\* a set trap that writes under the bare property name
setKeyBare(prop, id) == prop

\* valuesProxy.handler.set: the key the backend write goes to.
setKey(prop, id) == prefixKey(prop, id)

\* a set trap that forgets its callback
callsBackNever(callback) == FALSE

\* valuesProxy.handler.set: `if (callback)`, on the GM branch.
callsBack(callback) == callback

\* an accepts-test that lets every property through
acceptsAny(obj, prop) == TRUE

\* valuesProxy.handler.set: `if (prop in target)`
accepts(obj, prop) == has(obj, prop)

\* The assignment proxy[prop] = value through valuesProxy: its set trap.
ProxySet(prop, value) ==
    LET prefix == setKey(prop, pxId)
    IN  /\ nops < MaxOps
        /\ nops' = nops + 1
        /\ IF accepts(target, prop)
           THEN IF wGrants
                THEN \* GM.setValue is dispatched, the callback gets its promise
                     /\ gmWrites' = Append(gmWrites, [key |-> prefix, value |-> value,
                                                      status |-> "pending", prop |-> prop])
                     /\ cbCalls' = IF callsBack(pxCallback)
                                   THEN Append(cbCalls, Len(gmWrites) + 1)
                                   ELSE cbCalls
                     /\ target' = reflectSet(target, prop, value)
                     /\ last' = [op |-> "set", prop |-> prop, value |-> value,
                                 result |-> "true"]
                     /\ UNCHANGED <<localStorage, lsWrites>>
                ELSE IF ~ensureString({value})
                THEN \* ensureString throws out of the trap
                     /\ last' = [op |-> "set", prop |-> prop, value |-> value,
                                 result |-> "TypeError"]
                     /\ UNCHANGED <<localStorage, lsWrites, gmWrites, cbCalls, target>>
                ELSE /\ localStorage' = [localStorage EXCEPT ![prefix] = String(value)]
                     /\ lsWrites' = Append(lsWrites, [key |-> prefix, value |-> value])
                     /\ target' = reflectSet(target, prop, value)
                     /\ last' = [op |-> "set", prop |-> prop, value |-> value,
                                 result |-> "true"]
                     /\ UNCHANGED <<gmWrites, cbCalls>>
           ELSE /\ last' = [op |-> "set", prop |-> prop, value |-> value,
                            result |-> "false"]
                /\ UNCHANGED <<localStorage, lsWrites, gmWrites, cbCalls, target>>
        /\ UNCHANGED <<GM, gmStore, pxId, pxCallback, wGrants, gGrants, gRead, gReads>>
        /\ UNCHANGED <<gvVars, deleteVars, applied, xhrConfigVars>>

\* a property read that asks the backend
proxyGetBackend(obj, prop, id) ==
    IF wGrants THEN gmStore[prefixKey(prop, id)]
    ELSE Coalesce(localStorage[prefixKey(prop, id)], Undef)

\* valuesProxy has no get trap: a property read is the object's own.
proxyGet(obj, prop, id) == IF has(obj, prop) THEN obj[prop] ELSE Undef

\* The read proxy[prop] through valuesProxy.
ProxyGet(prop) ==
    /\ nops < MaxOps
    /\ nops' = nops + 1
    /\ last' = [op |-> "get", prop |-> prop, value |-> proxyGet(target, prop, pxId),
                result |-> "value"]
    /\ UNCHANGED <<GM, gmStore, localStorage, target, pxId, pxCallback, wGrants,
                   gGrants, gmWrites, lsWrites, cbCalls, gRead, gReads>>
    /\ UNCHANGED <<gvVars, deleteVars, applied, xhrConfigVars>>

\* The host completes a GM.setValue the proxy dispatched: the value is stored.
\* The host gives no order among the calls in flight.
ProxyWriteSettles(i) ==
    /\ i \in 1..Len(gmWrites)
    /\ gmWrites[i].status = "pending"
    /\ gmStore' = [gmStore EXCEPT ![gmWrites[i].key] = gmWrites[i].value]
    /\ gmWrites' = [gmWrites EXCEPT ![i].status = "done"]
    /\ UNCHANGED <<GM, localStorage, target, pxId, pxCallback, wGrants, gGrants,
                   lsWrites, cbCalls, gRead, gReads, last, nops>>
    /\ UNCHANGED <<gvVars, deleteVars, applied, xhrConfigVars>>

\* The host rejects a GM.setValue the proxy dispatched.
ProxyWriteRejects(i) ==
    /\ i \in 1..Len(gmWrites)
    /\ gmWrites[i].status = "pending"
    /\ gmWrites' = [gmWrites EXCEPT ![i].status = "failed"]
    /\ UNCHANGED <<GM, gmStore, localStorage, target, pxId, pxCallback, wGrants,
                   gGrants, lsWrites, cbCalls, gRead, gReads, last, nops>>
    /\ UNCHANGED <<gvVars, deleteVars, applied, xhrConfigVars>>

\* a read-through that asks for the bare property name
getKeyBare(prop, id) == prop

\* valuesGetProxy.handler.get: the key the backend is asked for.
getKey(prop, id) == prefixKey(prop, id)

\* valuesGetProxy.handler.get: `value !== undefined`
gmDefined(value) == value # Undef

\* a miss-test that looks for undefined where getItem gives null
lsDefinedNotUndefined(value) == value # Undef

\* valuesGetProxy.handler.get: `value !== null`
lsDefined(value) == value # Null

\* The read getProxy[prop] through valuesGetProxy: its get trap.
GetProxyRead(prop) ==
    LET prefix == getKey(prop, pxId)
        value == localStorage[prefix]
    IN  /\ nops < MaxOps
        /\ nops' = nops + 1
        /\ gRead.state # "pending"
        /\ gRead' = IF has(target, prop)
                    THEN IF gGrants
                         THEN [state |-> "pending", prop |-> prop, value |-> Undef]
                         ELSE IF lsDefined(value)
                         THEN [state |-> "resolved", prop |-> prop, value |-> value]
                         ELSE [state |-> "rejected", prop |-> prop, value |-> Undef]
                    ELSE [state |-> "rejected", prop |-> prop, value |-> Undef]
        /\ gReads' = IF ~has(target, prop) THEN gReads
                     ELSE IF gGrants
                     THEN Append(gReads, [api |-> "GM.getValue", key |-> prefix])
                     ELSE Append(gReads, [api |-> "localStorage.getItem", key |-> prefix])
        /\ last' = [op |-> "read", prop |-> prop, value |-> Undef, result |-> "promise"]
        /\ UNCHANGED <<GM, gmStore, localStorage, target, pxId, pxCallback, wGrants,
                       gGrants, gmWrites, lsWrites, cbCalls>>
        /\ UNCHANGED <<gvVars, deleteVars, applied, xhrConfigVars>>

\* GM.getValue of the read settles: the then-callback resolves or rejects.
GetProxyReadSettles ==
    LET value == gmStore[getKey(gRead.prop, pxId)]
    IN  /\ gRead.state = "pending"
        /\ gRead' = IF gmDefined(value)
                    THEN [gRead EXCEPT !.state = "resolved", !.value = value]
                    ELSE [gRead EXCEPT !.state = "rejected"]
        /\ UNCHANGED <<GM, gmStore, localStorage, target, pxId, pxCallback, wGrants,
                       gGrants, gmWrites, lsWrites, cbCalls, gReads, last, nops>>
        /\ UNCHANGED <<gvVars, deleteVars, applied, xhrConfigVars>>

\* The host rejects GM.getValue of the read: the then has no rejection
\* handler, the promise the trap returned is never settled.
GetProxyReadHostRejects ==
    /\ gRead.state = "pending"
    /\ gRead' = [gRead EXCEPT !.state = "lost"]
    /\ UNCHANGED <<GM, gmStore, localStorage, target, pxId, pxCallback, wGrants,
                   gGrants, gmWrites, lsWrites, cbCalls, gReads, last, nops>>
    /\ UNCHANGED <<gvVars, deleteVars, applied, xhrConfigVars>>

\* a set trap that lets the assignment through to the object
GetProxySetThrough(prop, value) ==
    /\ nops < MaxOps
    /\ nops' = nops + 1
    /\ target' = reflectSet(target, prop, value)
    /\ last' = [op |-> "gset", prop |-> prop, value |-> value, result |-> "true"]
    /\ UNCHANGED <<GM, gmStore, localStorage, pxId, pxCallback, wGrants,
                   gGrants, gmWrites, lsWrites, cbCalls, gRead, gReads>>
    /\ UNCHANGED <<gvVars, deleteVars, applied, xhrConfigVars>>

\* The assignment getProxy[prop] = value through valuesGetProxy: its set
\* trap, `set() { return false }`.
GetProxySet(prop, value) ==
    /\ nops < MaxOps
    /\ nops' = nops + 1
    /\ last' = [op |-> "gset", prop |-> prop, value |-> value, result |-> "false"]
    /\ UNCHANGED <<GM, gmStore, localStorage, target, pxId, pxCallback, wGrants,
                   gGrants, gmWrites, lsWrites, cbCalls, gRead, gReads>>
    /\ UNCHANGED <<gvVars, deleteVars, applied, xhrConfigVars>>

\* Another writer (another script instance, the page) stores a value.
OtherWrite(store, pk, value) ==
    /\ nops < MaxOps
    /\ nops' = nops + 1
    /\ IF store = "GM"
       THEN /\ value \in StoredGMValues
            /\ gmStore' = [gmStore EXCEPT ![pk] = value]
            /\ UNCHANGED localStorage
       ELSE /\ value \in StoredLSValues
            /\ localStorage' = [localStorage EXCEPT ![pk] = value]
            /\ UNCHANGED gmStore
    /\ last' = [op |-> "other", prop |-> pk, value |-> value, result |-> store]
    /\ UNCHANGED <<GM, target, pxId, pxCallback, wGrants, gGrants, gmWrites,
                   lsWrites, cbCalls, gRead, gReads>>
    /\ UNCHANGED <<gvVars, deleteVars, applied, xhrConfigVars>>

ProxyNext ==
    \/ \E prop \in Keys, value \in WriteValues : ProxySet(prop, value)
    \/ \E prop \in Keys : ProxyGet(prop)
    \/ \E i \in 1..MaxOps : ProxyWriteSettles(i)
    \/ \E i \in 1..MaxOps : ProxyWriteRejects(i)
    \/ \E prop \in Keys : GetProxyRead(prop)
    \/ GetProxyReadSettles
    \/ GetProxyReadHostRejects
    \/ \E prop \in Keys, value \in WriteValues : GetProxySet(prop, value)
    \/ \E store \in {"GM", "LS"}, pk \in PKeys,
          value \in StoredGMValues \cup StoredLSValues : OtherWrite(store, pk, value)

ProxySpec == ProxyInit /\ [][ProxyNext]_vars

\* ------------------------------------------------------------ deleteValue
\* The host global GM as deleteValue looks at it.
DeleteHosts == {[live |-> FALSE, grants |-> {}]}
                 \cup {[live |-> TRUE, grants |-> g] : g \in SUBSET {"deleteValue"}}

\* getValues is not running and has not been called.
Idle ==
    /\ call = NoCall
    /\ grants = FALSE
    /\ promise = "none"
    /\ reason = ""
    /\ task = NoTasks
    /\ retrieved = NoRetrieved
    /\ returnedValues = EmptyObject
    /\ gmStore0 = gmStore
    /\ localStorage0 = localStorage
    /\ ops = {}
    /\ failed = {}
    /\ calls = 0

\* A values object the script holds, over stores that hold some entries; no
\* proxy has been made, deleteValue has not been called.
DeleteInit ==
    /\ GM \in DeleteHosts
    /\ gmStore \in [PKeys -> {Str("x"), Undef}]
    /\ localStorage \in [PKeys -> {Str("x"), Null}]
    /\ Stored(gmStore, localStorage) <= MaxDeleteStored
    /\ Idle
    /\ target \in TargetSets
    /\ pxId = Undef
    /\ pxCallback = FALSE
    /\ wGrants = FALSE
    /\ gGrants = FALSE
    /\ gmWrites = <<>>
    /\ lsWrites = <<>>
    /\ cbCalls = <<>>
    /\ gRead = NoRead
    /\ gReads = <<>>
    /\ last = NoOp
    /\ nops = 0
    /\ del = NoDelete
    /\ dels = <<>>
    /\ applied = {}
    /\ xhr = NoXhr
    /\ config = EmptyObject
    /\ optionsRetrieved = EmptyObject

\* deleteValue: `checkGrants('deleteValue')`
deleteGrants(host) == checkGrants(host, {"deleteValue"})

\* a delete that goes to the bare key
deleteKeyBare(toDelete, id) == toDelete

\* deleteValue: `const prefix = prefixKey(toDelete, id)`
deleteKey(toDelete, id) == prefixKey(toDelete, id)

\* a membership test that lets every key through
deletesAny(values, toDelete) == TRUE

\* deleteValue: `if (toDelete in values)`
deletes(values, toDelete) == has(values, toDelete)

\* `delete values[toDelete]`
without(values, toDelete) == [k \in DOMAIN values \ {toDelete} |-> values[k]]

\* The call deleteValue(values, toDelete, id) on the values object, up to the
\* return of the promise: the async executor runs synchronously to its await
\* of GM.deleteValue, or to its end under localStorage.  The reject() that
\* follows resolve(values) finds the promise settled and does nothing.
deleteValue(toDelete, id) ==
    LET prefix == deleteKey(toDelete, id)
    IN  /\ nops < MaxOps
        /\ nops' = nops + 1
        /\ del.host # "pending"
        /\ last' = [op |-> "delete", prop |-> toDelete, value |-> id,
                    result |-> "promise"]
        /\ IF deletes(target, toDelete)
           THEN IF deleteGrants(GM)
                THEN /\ del' = [state |-> "pending", host |-> "pending",
                                prop |-> toDelete, id |-> id, key |-> prefix,
                                value |-> EmptyObject]
                     /\ dels' = Append(dels, [api |-> "GM.deleteValue", key |-> prefix])
                     /\ UNCHANGED <<localStorage, target>>
                ELSE /\ localStorage' = [localStorage EXCEPT ![prefix] = Null]
                     /\ dels' = Append(dels, [api |-> "localStorage.removeItem",
                                              key |-> prefix])
                     /\ target' = without(target, toDelete)
                     /\ del' = [state |-> "resolved", host |-> "none",
                                prop |-> toDelete, id |-> id, key |-> prefix,
                                value |-> without(target, toDelete)]
           ELSE /\ del' = [state |-> "rejected", host |-> "none", prop |-> toDelete,
                           id |-> id, key |-> prefix, value |-> EmptyObject]
                /\ UNCHANGED <<localStorage, target, dels>>
        /\ UNCHANGED <<GM, gmStore, pxId, pxCallback, wGrants, gGrants, gmWrites,
                       lsWrites, cbCalls, gRead, gReads, applied, xhrConfigVars>>
        /\ UNCHANGED gvVars

\* The host completes GM.deleteValue: the entry is gone from the store; the
\* executor goes on to `delete values[toDelete]` and `resolve(values)`.
DeleteValueSettles ==
    /\ del.host = "pending"
    /\ gmStore' = [gmStore EXCEPT ![del.key] = Undef]
    /\ target' = without(target, del.prop)
    /\ del' = [del EXCEPT !.state = "resolved", !.host = "done",
                          !.value = without(target, del.prop)]
    /\ UNCHANGED <<GM, localStorage, pxId, pxCallback, wGrants, gGrants, gmWrites,
                   lsWrites, cbCalls, gRead, gReads, last, nops, dels, applied, xhrConfigVars>>
    /\ UNCHANGED gvVars

\* The host rejects GM.deleteValue: the await throws inside the async
\* executor, whose promise nobody handles; neither resolve nor reject of the
\* promise deleteValue returned is called.
DeleteValueHostRejects ==
    /\ del.host = "pending"
    /\ del' = [del EXCEPT !.host = "failed"]
    /\ UNCHANGED <<GM, gmStore, localStorage, target, pxId, pxCallback, wGrants,
                   gGrants, gmWrites, lsWrites, cbCalls, gRead, gReads, last, nops,
                   dels, applied, xhrConfigVars>>
    /\ UNCHANGED gvVars

DeleteNext ==
    \/ \E toDelete \in Keys, id \in IdValues : deleteValue(toDelete, id)
    \/ DeleteValueSettles
    \/ DeleteValueHostRejects

DeleteSpec == DeleteInit /\ [][DeleteNext]_vars

\* ----------------------------------------------------------- getAllValues
\* The host global GM as getAllValues and the getValues it calls look at it.
AllHosts == {[live |-> FALSE, grants |-> {}]}
              \cup {[live |-> TRUE, grants |-> g] :
                       g \in SUBSET {"getValue", "setValue", "listValues"}}

\* The stores hold some entries under the names of Keys; nothing has been
\* called.
AllInit ==
    /\ GM \in AllHosts
    /\ gmStore \in [PKeys -> StoredGMValues \cup {Undef}]
    /\ localStorage \in [PKeys -> StoredLSValues \cup {Null}]
    /\ \A pk \in PKeys \ Keys : gmStore[pk] = Undef /\ localStorage[pk] = Null
    /\ Stored(gmStore, localStorage) <= MaxStored
    /\ Idle
    /\ NoProxy

\* getAllValues: `checkGrants('getValue', 'listValues')`
listGrants(host) == checkGrants(host, {"getValue", "listValues"})

\* Object.keys(localStorage)
lsKeys(ls) == {k \in DOMAIN ls : ls[k] # Null}

\* what GM.listValues() resolves with
gmKeys(gm) == {k \in DOMAIN gm : gm[k] # Undef}

\* `for (const value of valueNames) emptyDefault[value] = ''`
emptyDefault(valueNames) == [k \in valueNames |-> Str("")]

\* a getAllValues that asks getValues to store the defaults
getAllValuesArgsStore == [argc |-> 3, id |-> Undef, setDefaults |-> TRUE]

\* `return getValues(defaults)`: one argument, the others take their defaults.
getAllValuesArgs == [argc |-> 1, id |-> Undef, setDefaults |-> FALSE]

\* The call getAllValues(): under localStorage the names are there at once
\* and getValues is called; under Greasemonkey it awaits GM.listValues().
getAllValues ==
    /\ promise = "none"
    /\ IF ~listGrants(GM)
       THEN getValues(emptyDefault(lsKeys(localStorage)), getAllValuesArgs.argc,
                      getAllValuesArgs.id, getAllValuesArgs.setDefaults)
       ELSE /\ calls < MaxCalls
            /\ promise' = "listing"
            /\ UNCHANGED <<GM, gmStore, localStorage, call, grants, reason, task,
                           retrieved, returnedValues, gmStore0, localStorage0, ops,
                           failed, calls>>
            /\ UNCHANGED proxyVars

\* GM.listValues() settles with the names of the store: getValues is called.
ListValuesSettles ==
    /\ promise = "listing"
    /\ getValues(emptyDefault(gmKeys(gmStore)), getAllValuesArgs.argc,
                 getAllValuesArgs.id, getAllValuesArgs.setDefaults)

\* The host rejects GM.listValues(): the async function getAllValues rejects.
ListValuesRejects ==
    /\ promise = "listing"
    /\ promise' = "rejected"
    /\ reason' = "host"
    /\ calls' = calls + 1
    /\ UNCHANGED <<GM, gmStore, localStorage, call, grants, task, retrieved,
                   returnedValues, gmStore0, localStorage0, ops, failed>>
    /\ UNCHANGED proxyVars

AllNext ==
    \/ getAllValues
    \/ ListValuesSettles
    \/ ListValuesRejects
    \/ \E k \in Keys : GetValueSettles(k)
    \/ \E k \in Keys : GetValueRejects(k)
    \/ PromiseAllThen
    \/ Return

AllSpec == AllInit /\ [][AllNext]_vars

\* ------------------------------------------- checkGrants, prefixKey alone
\* No global GM is declared: a manager that has the GM_* functions only, a
\* page without a manager.
Undeclared == [live |-> FALSE, grants |-> {}, declared |-> FALSE]

GrantHosts == GMHosts \cup {Undeclared}

\* The call checkGrants(...grants) under a host: what it returns, or the
\* error with which `!GM` ends it when the identifier GM is not declared.
callCheckGrants(host, names) ==
    IF host = Undeclared THEN "ReferenceError"
    ELSE IF checkGrants(host, names) THEN "true" ELSE "false"

GrantsInit ==
    /\ GM \in GrantHosts
    /\ gmStore = [pk \in PKeys |-> Undef]
    /\ localStorage = [pk \in PKeys |-> Null]
    /\ Idle
    /\ NoProxy

\* A call of checkGrants; its result is kept with the host it was made under.
CallCheckGrants(grantsArg) ==
    /\ nops < MaxOps
    /\ nops' = nops + 1
    /\ applied' = applied \cup {[host |-> GM, grants |-> grantsArg,
                                  result |-> callCheckGrants(GM, grantsArg),
                                  at |-> nops + 1]}
    /\ UNCHANGED <<GM, gmStore, localStorage, target, pxId, pxCallback, wGrants,
                   gGrants, gmWrites, lsWrites, cbCalls, gRead, gReads, last, del, dels,
                   xhrConfigVars>>
    /\ UNCHANGED gvVars

\* Between two calls the global GM is another one.
HostChanges(host) ==
    /\ host # GM
    /\ GM' = host
    /\ UNCHANGED <<gmStore, localStorage>>
    /\ UNCHANGED <<gvVars, proxyVars>>

GrantsNext ==
    \/ \E grantsArg \in SUBSET GrantNames : CallCheckGrants(grantsArg)
    \/ \E host \in GrantHosts : HostChanges(host)

GrantsSpec == GrantsInit /\ [][GrantsNext]_vars

\* Keys and prefixes prefixKey is applied to.
PrefixKeyNames == {"a", "b", "a.b", "ns.a"}
PrefixIds == IdValues \cup {Str("a")}

PrefixInit ==
    /\ GM = [live |-> FALSE, grants |-> {}]
    /\ gmStore = [pk \in PKeys |-> Undef]
    /\ localStorage = [pk \in PKeys |-> Null]
    /\ Idle
    /\ NoProxy

\* An application of prefixKey; its result is kept with its arguments.
ApplyPrefixKey(key, prefix) ==
    /\ nops < MaxOps
    /\ nops' = nops + 1
    /\ applied' = applied \cup {[key |-> key, id |-> prefix,
                                  result |-> prefixKey(key, prefix)]}
    /\ UNCHANGED <<GM, gmStore, localStorage, target, pxId, pxCallback, wGrants,
                   gGrants, gmWrites, lsWrites, cbCalls, gRead, gReads, last, del, dels,
                   xhrConfigVars>>
    /\ UNCHANGED gvVars

PrefixNext == \E key \in PrefixKeyNames, prefix \in PrefixIds : ApplyPrefixKey(key, prefix)

PrefixSpec == PrefixInit /\ [][PrefixNext]_vars

\* ------------------------------------------------------------- xhrPromise
\* XMLHttpRequest.UNSENT, the literal 3 (LOADING) and XMLHttpRequest.DONE
UNSENT == 0
LOADING == 3
DONE == 4

\* readyState of the response an event carries
ReadyStates == 1..DONE

\* The host global GM as xhrPromise looks at it.
XhrHosts == {[live |-> FALSE, grants |-> {}]}
              \cup {[live |-> TRUE, grants |-> g] : g \in SUBSET {"xmlHttpRequest"}}

XhrInit ==
    /\ GM \in XhrHosts
    /\ gmStore = [pk \in PKeys |-> Undef]
    /\ localStorage = [pk \in PKeys |-> Null]
    /\ Idle
    /\ NoProxy

\* a grant test that finds the grant everywhere
xhrGrantsAny(host) == TRUE

\* xhrPromise: `checkGrants('xmlHttpRequest')`
xhrGrants(host) == checkGrants(host, {"xmlHttpRequest"})

\* a failure test that wants DONE to have been seen before
xhrFailedBelowDone(lastState) == lastState < DONE

\* onreadystatechange: `if (lastState < 3)`
xhrFailed(lastState) == lastState < LOADING

\* The call xhrPromise(xhrInfo): the executor dispatches the request with
\* its onreadystatechange, or rejects.
xhrPromise ==
    /\ xhr.state = "none"
    /\ xhr' = IF xhrGrants(GM)
              THEN [state |-> "pending", reason |-> "", lastState |-> UNSENT,
                    sent |-> 1, events |-> <<>>, response |-> 0]
              ELSE [state |-> "rejected", reason |-> "Missing grant GM.xmlHttpRequest",
                    lastState |-> UNSENT, sent |-> 0, events |-> <<>>, response |-> 0]
    /\ UNCHANGED <<GM, gmStore, localStorage, config, optionsRetrieved>>
    /\ UNCHANGED <<gvVars, target, pxId, pxCallback, wGrants, gGrants, gmWrites,
                   lsWrites, cbCalls, gRead, gReads, last, nops, del, dels, applied>>

\* The host calls onreadystatechange with a response in state readyState.
\* resolve and reject act on a pending promise only.
onreadystatechange(readyState) ==
    LET settles == xhr.state = "pending" /\ readyState = DONE
        n == Len(xhr.events) + 1
    IN  /\ xhr.sent = 1
        /\ Len(xhr.events) < MaxEvents
        /\ xhr' = [state |-> IF ~settles THEN xhr.state
                             ELSE IF xhrFailed(xhr.lastState) THEN "rejected"
                             ELSE "resolved",
                   reason |-> IF settles /\ xhrFailed(xhr.lastState)
                              THEN "XHR failed" ELSE xhr.reason,
                   response |-> IF settles /\ ~xhrFailed(xhr.lastState)
                                THEN n ELSE xhr.response,
                   lastState |-> readyState,
                   sent |-> xhr.sent,
                   events |-> Append(xhr.events, readyState)]
        /\ UNCHANGED <<GM, gmStore, localStorage, config, optionsRetrieved>>
        /\ UNCHANGED <<gvVars, target, pxId, pxCallback, wGrants, gGrants, gmWrites,
                       lsWrites, cbCalls, gRead, gReads, last, nops, del, dels, applied>>

XhrNext ==
    \/ xhrPromise
    \/ \E readyState \in ReadyStates : onreadystatechange(readyState)

XhrSpec == XhrInit /\ [][XhrNext]_vars

\* ------------------------------------------ getConfigValues (src/index.ts)
\* getConfigValues checks no grant: the host has GM.getValue and GM.setValue.
ConfigHost == [live |-> TRUE, grants |-> {"getValue", "setValue"}]

\* The store holds some entries under the names of the options.
ConfigInit ==
    /\ GM = ConfigHost
    /\ gmStore \in [PKeys -> StoredGMValues \cup {Undef}]
    /\ \A pk \in PKeys \ Keys : gmStore[pk] = Undef
    /\ localStorage = [pk \in PKeys |-> Null]
    /\ Stored(gmStore, localStorage) <= MaxStored
    /\ Idle
    /\ NoProxy

\* `Object.values(optionRetrieved).every(v => v)`: optionRetrieved is the
\* function itself, an object without enumerable properties.
optionRetrieved == \A v \in ObjectValues(EmptyObject) : Truthy(v)

\* The call getConfigValues(defaults) up to the return of the promise:
\* config is the defaults object itself, every option's GM.getValue is out.
getConfigValues(defaults) ==
    /\ promise = "none"
    /\ calls < MaxCalls
    /\ calls' = calls + 1
    /\ call' = [defaults |-> defaults, id |-> Undef, setDefaults |-> TRUE, argc |-> 1]
    /\ config' = defaults
    /\ optionsRetrieved' = [option \in DOMAIN defaults |-> FALSE]
    /\ task' = [k \in Keys |-> IF k \in DOMAIN defaults THEN "getValue" ELSE "none"]
    /\ ops' = {Op("GM.getValue", option, option) : option \in DOMAIN defaults}
    /\ promise' = "pending"
    /\ UNCHANGED <<GM, gmStore, localStorage, grants, reason, retrieved,
                   returnedValues, gmStore0, localStorage0, failed, xhr>>
    /\ UNCHANGED <<target, pxId, pxCallback, wGrants, gGrants, gmWrites, lsWrites,
                   cbCalls, gRead, gReads, last, nops, del, dels, applied>>

\* GM.getValue(option) settles: the then-callback takes the stored value
\* into config and calls optionRetrieved(), or awaits GM.setValue.
ConfigGetValueSettles(option) ==
    LET value == gmStore[option]
        resolves == value # Undef /\ optionRetrieved /\ promise = "pending"
    IN  /\ promise # "none"
        /\ task[option] = "getValue"
        /\ IF value # Undef
           THEN /\ config' = [config EXCEPT ![option] = value]
                /\ optionsRetrieved' = [optionsRetrieved EXCEPT ![option] = TRUE]
                /\ task' = [task EXCEPT ![option] = "resolved"]
                /\ UNCHANGED ops
           ELSE /\ task' = [task EXCEPT ![option] = "setValue"]
                /\ ops' = ops \cup {Op("GM.setValue", option, option)}
                /\ UNCHANGED <<config, optionsRetrieved>>
        /\ promise' = IF resolves THEN "resolved" ELSE promise
        /\ returnedValues' = IF resolves THEN config' ELSE returnedValues
        /\ UNCHANGED <<GM, gmStore, localStorage, call, grants, reason, retrieved,
                       gmStore0, localStorage0, failed, calls, xhr>>
        /\ UNCHANGED <<target, pxId, pxCallback, wGrants, gGrants, gmWrites, lsWrites,
                       cbCalls, gRead, gReads, last, nops, del, dels, applied>>

\* GM.setValue(option, config[option]) settles: the default is stored, the
\* option counts as retrieved, optionRetrieved() is called.
ConfigSetValueSettles(option) ==
    LET resolves == optionRetrieved /\ promise = "pending"
    IN  /\ promise # "none"
        /\ task[option] = "setValue"
        /\ gmStore' = [gmStore EXCEPT ![option] = config[option]]
        /\ optionsRetrieved' = [optionsRetrieved EXCEPT ![option] = TRUE]
        /\ task' = [task EXCEPT ![option] = "resolved"]
        /\ promise' = IF resolves THEN "resolved" ELSE promise
        /\ returnedValues' = IF resolves THEN config ELSE returnedValues
        /\ UNCHANGED <<GM, localStorage, call, grants, reason, retrieved, gmStore0,
                       localStorage0, ops, failed, calls, xhr, config>>
        /\ UNCHANGED <<target, pxId, pxCallback, wGrants, gGrants, gmWrites, lsWrites,
                       cbCalls, gRead, gReads, last, nops, del, dels, applied>>

\* The host rejects the GM.getValue or the GM.setValue of an option: nothing
\* handles it, the option is never counted.
ConfigHostRejects(option) ==
    /\ promise # "none"
    /\ task[option] \in {"getValue", "setValue"}
    /\ task' = [task EXCEPT ![option] = "thrown"]
    /\ failed' = failed \cup {Op(IF task[option] = "getValue" THEN "GM.getValue"
                                  ELSE "GM.setValue", option, option)}
    /\ UNCHANGED <<GM, gmStore, localStorage, call, grants, promise, reason,
                   retrieved, returnedValues, gmStore0, localStorage0, ops, calls,
                   xhrConfigVars>>
    /\ UNCHANGED <<target, pxId, pxCallback, wGrants, gGrants, gmWrites, lsWrites,
                   cbCalls, gRead, gReads, last, nops, del, dels, applied>>

ConfigNext ==
    \/ \E defaults \in DefaultSets : getConfigValues(defaults)
    \/ \E option \in Keys : ConfigGetValueSettles(option)
    \/ \E option \in Keys : ConfigSetValueSettles(option)
    \/ \E option \in Keys : ConfigHostRejects(option)

ConfigSpec == ConfigInit /\ [][ConfigNext]_vars

\* ------------------------------- valuesProxy writes, then getValues reads
\* A script that writes through its valuesProxy, lets the host finish the
\* writes, and then loads with getValues under the id of the proxy.
WritesSettled == \A i \in 1..Len(gmWrites) : gmWrites[i].status # "pending"

RoundTripInit == ProxyInit

RoundTripNext ==
    \/ \E prop \in Keys, value \in WriteValues : promise = "none" /\ ProxySet(prop, value)
    \/ \E i \in 1..MaxOps : ProxyWriteSettles(i)
    \/ \E i \in 1..MaxOps : ProxyWriteRejects(i)
    \/ \E defaults \in DefaultSets, argc \in 2..3, sdArg \in BOOLEAN :
          promise = "none" /\ WritesSettled /\ getValues(defaults, argc, pxId, sdArg)
    \/ \E k \in Keys : GetValueSettles(k)
    \/ \E k \in Keys : GetValueRejects(k)
    \/ \E k \in Keys : SetValueSettles(k)
    \/ \E k \in Keys : SetValueRejects(k)
    \/ PromiseAllThen

RoundTripSpec == RoundTripInit /\ [][RoundTripNext]_vars

\* ------------------------------------ getValues, then deleteValue on its result
\* The host global GM as getValues and deleteValue look at it.
LoadDeleteHosts == {[live |-> FALSE, grants |-> {}]}
                     \cup {[live |-> TRUE, grants |-> g] :
                              g \in SUBSET {"getValue", "setValue", "deleteValue"}}

\* Empty storage; the script has called nothing yet.
LoadDeleteInit ==
    /\ GM \in LoadDeleteHosts
    /\ gmStore = [pk \in PKeys |-> Undef]
    /\ localStorage = [pk \in PKeys |-> Null]
    /\ Idle
    /\ NoProxy

\* `const values = await getValues(defaults, id, true)`: the script takes the
\* object the promise resolved with.
AwaitValues ==
    /\ promise = "resolved"
    /\ last = NoOp
    /\ target' = returnedValues
    /\ last' = [op |-> "await", prop |-> "", value |-> call.id, result |-> "values"]
    /\ UNCHANGED <<GM, gmStore, localStorage, pxId, pxCallback, wGrants, gGrants,
                   gmWrites, lsWrites, cbCalls, gRead, gReads, nops, del, dels,
                   applied, xhrConfigVars>>
    /\ UNCHANGED gvVars

\* The script loads with setDefaults, then deletes keys of the loaded object
\* under the id it loaded with.
LoadDeleteNext ==
    \/ \E defaults \in DefaultSets, idArg \in IdValues :
          promise = "none" /\ getValues(defaults, 3, idArg, TRUE)
    \/ \E k \in Keys : GetValueSettles(k)
    \/ \E k \in Keys : GetValueRejects(k)
    \/ \E k \in Keys : SetValueSettles(k)
    \/ \E k \in Keys : SetValueRejects(k)
    \/ PromiseAllThen
    \/ AwaitValues
    \/ \E toDelete \in Keys : last # NoOp /\ deleteValue(toDelete, call.id)
    \/ DeleteValueSettles
    \/ DeleteValueHostRejects

LoadDeleteSpec == LoadDeleteInit /\ [][LoadDeleteNext]_vars

\* -------------------------------- valuesProxy writes while deleteValue runs
\* The host global GM as valuesProxy and deleteValue look at it.
ProxyDeleteHosts == {[live |-> FALSE, grants |-> {}]}
                      \cup {[live |-> TRUE, grants |-> g] :
                               g \in SUBSET {"setValue", "deleteValue"}}

\* A values object and a valuesProxy over it; the stores are empty.
ProxyDeleteInit ==
    /\ GM \in ProxyDeleteHosts
    /\ gmStore = [pk \in PKeys |-> Undef]
    /\ localStorage = [pk \in PKeys |-> Null]
    /\ Idle
    /\ target \in TargetSets
    /\ pxId \in IdValues
    /\ pxCallback \in BOOLEAN
    /\ wGrants = proxyGrants(GM)
    /\ gGrants = FALSE
    /\ gmWrites = <<>>
    /\ lsWrites = <<>>
    /\ cbCalls = <<>>
    /\ gRead = NoRead
    /\ gReads = <<>>
    /\ last = NoOp
    /\ nops = 0
    /\ del = NoDelete
    /\ dels = <<>>
    /\ applied = {}
    /\ xhr = NoXhr
    /\ config = EmptyObject
    /\ optionsRetrieved = EmptyObject

\* The script writes through the proxy and deletes from the object under the
\* id of the proxy; the host completes what is in flight in any order.
ProxyDeleteNext ==
    \/ \E prop \in Keys, value \in WriteValues : ProxySet(prop, value)
    \/ \E i \in 1..MaxOps : ProxyWriteSettles(i)
    \/ \E i \in 1..MaxOps : ProxyWriteRejects(i)
    \/ \E toDelete \in Keys : deleteValue(toDelete, pxId)
    \/ DeleteValueSettles
    \/ DeleteValueHostRejects

ProxyDeleteSpec == ProxyDeleteInit /\ [][ProxyDeleteNext]_vars

\* ------------------------------ valuesProxy on a host that keeps the order
\* The GM.setValue the host takes up next: the earliest one still in flight.
firstPending(writes) ==
    {i \in 1..Len(writes) :
        /\ writes[i].status = "pending"
        /\ \A j \in 1..(i - 1) : writes[j].status # "pending"}

OrderedInit == ProxyInit

\* One valuesProxy is the only writer; the host completes or rejects the
\* writes in the order they were dispatched.
OrderedNext ==
    \/ \E prop \in Keys, value \in WriteValues : ProxySet(prop, value)
    \/ \E prop \in Keys : ProxyGet(prop)
    \/ \E i \in firstPending(gmWrites) : ProxyWriteSettles(i)
    \/ \E i \in firstPending(gmWrites) : ProxyWriteRejects(i)

OrderedSpec == OrderedInit /\ [][OrderedNext]_vars

\* ----------------------------------- getValues and the caller's defaults object
\* The script holds a defaults object, kept in config; it has called nothing.
FrameInit ==
    /\ GM \in GMHosts
    /\ gmStore \in [PKeys -> StoredGMValues \cup {Undef}]
    /\ localStorage \in [PKeys -> StoredLSValues \cup {Null}]
    /\ Stored(gmStore, localStorage) <= MaxStored
    /\ Idle
    /\ target = EmptyObject
    /\ pxId = Undef
    /\ pxCallback = FALSE
    /\ wGrants = FALSE
    /\ gGrants = FALSE
    /\ gmWrites = <<>>
    /\ lsWrites = <<>>
    /\ cbCalls = <<>>
    /\ gRead = NoRead
    /\ gReads = <<>>
    /\ last = NoOp
    /\ nops = 0
    /\ del = NoDelete
    /\ dels = <<>>
    /\ applied = {}
    /\ xhr = NoXhr
    /\ config \in DefaultSets
    /\ optionsRetrieved = EmptyObject

\* a getValues that resolves with the object it was given (`resolve(values)`)
resultObjectDefaults == "defaults"

\* getValues: `const returnedValues = {}`, a new object in both branches.
resultObject == "fresh"

\* Values the script assigns to the object it got back.
MutateValues == {Str("m")}

\* The script assigns to a property of the object the promise resolved with.
MutateResult(prop, value) ==
    /\ promise = "resolved"
    /\ nops < MaxOps
    /\ nops' = nops + 1
    /\ last' = [op |-> "mutate", prop |-> prop, value |-> value, result |-> "true"]
    /\ returnedValues' = reflectSet(returnedValues, prop, value)
    /\ config' = IF resultObject = "defaults"
                 THEN reflectSet(config, prop, value)
                 ELSE config
    /\ UNCHANGED <<GM, gmStore, localStorage, call, grants, promise, reason, task,
                   retrieved, gmStore0, localStorage0, ops, failed, calls>>
    /\ UNCHANGED <<target, pxId, pxCallback, wGrants, gGrants, gmWrites, lsWrites,
                   cbCalls, gRead, gReads, del, dels, applied, xhr, optionsRetrieved>>

\* The script calls getValues with its defaults object and later assigns to
\* the result.
FrameNext ==
    \/ \E argc \in 1..3, idArg \in IdValues, sdArg \in BOOLEAN :
          promise = "none" /\ getValues(config, argc, idArg, sdArg)
    \/ \E k \in Keys : GetValueSettles(k)
    \/ \E k \in Keys : GetValueRejects(k)
    \/ \E k \in Keys : SetValueSettles(k)
    \/ \E k \in Keys : SetValueRejects(k)
    \/ PromiseAllThen
    \/ \E prop \in Keys, value \in MutateValues : MutateResult(prop, value)

FrameSpec == FrameInit /\ [][FrameNext]_vars

\* ================================================================= claims
D == call.defaults
Called == promise # "none"
Resolved == promise = "resolved"
\* The backend the call in progress uses.
OnGM == Called /\ grants
OnLS == Called /\ ~grants
AllStrings(obj) == \A k \in DOMAIN obj : typeof(obj[k]) = "string"
GMEmptyAtCall == \A pk \in PKeys : gmStore0[pk] = Undef
LSEmptyAtCall == \A pk \in PKeys : localStorage0[pk] = Null
InFlight(k) == task[k] \in {"getValue", "setValue"}
Quiescent == \A k \in Keys : ~InFlight(k)
FullGrants == GM.live /\ GM.grants = GrantNames

\* C1: a call on empty storage (string defaults when localStorage is the
\* backend) is never rejected and, once resolved, delivers an object with
\* exactly the keys of D and D[k] at every key k; the plain call getValues(D)
\* loses no per-key promise unless the host fails an operation.
C1_EmptyStorageGivesDefaults ==
    /\ (OnGM /\ GMEmptyAtCall) \/ (OnLS /\ LSEmptyAtCall /\ AllStrings(D))
         => /\ promise # "rejected"
            /\ Resolved => /\ DOMAIN returnedValues = DOMAIN D
                           /\ \A k \in DOMAIN D : returnedValues[k] = D[k]
    /\ (OnGM /\ call.argc = 1 /\ failed = {})
         => \A k \in Keys : task[k] # "thrown"

C1_Witness ==
    /\ Resolved /\ OnGM /\ GMEmptyAtCall /\ call.argc = 1
    /\ DOMAIN D = Keys
    /\ D["a"] = Str("d") /\ D["b"] = Num("0")
    /\ returnedValues = D

\* C2 (as claimed): whatever value the backend in use holds at the physical
\* key of k when the call is made, the resolved object has that value at k.
C2_StoredValueIsReturned ==
    Resolved =>
        \A k \in DOMAIN D :
            LET pk == prefixKey(k, call.id)
            IN  /\ (OnGM /\ gmStore0[pk] # Undef) => returnedValues[k] = gmStore0[pk]
                /\ (OnLS /\ localStorage0[pk] # Null)
                      => returnedValues[k] = localStorage0[pk]

\* C3 (as claimed): with a non-empty id every storage operation of the call
\* for logical key k addresses "<id>.<k>", and the object is keyed by bare k.
C3_NamespacedOperations ==
    (Called /\ Truthy(call.id)) =>
        /\ \A op \in ops : op.key = call.id.lit \o "." \o op.for
        /\ Resolved => DOMAIN returnedValues = DOMAIN D

\* C4 (as claimed): after getValues(D, id, true) resolves, every key whose
\* physical key was absent holds D[k] at prefixKey(k, id).
C4_DefaultsStoredAtPhysicalKey ==
    (Resolved /\ call.setDefaults) =>
        \A k \in DOMAIN D :
            LET pk == prefixKey(k, call.id)
            IN  /\ (OnGM /\ gmStore0[pk] = Undef) => gmStore[pk] = D[k]
                /\ (OnLS /\ localStorage0[pk] = Null) => localStorage[pk] = String(D[k])

C6_StoredValuesKept ==
    Called =>
        \A pk \in PKeys :
            /\ gmStore0[pk] # Undef => gmStore[pk] = gmStore0[pk]
            /\ localStorage0[pk] # Null => localStorage[pk] = localStorage0[pk]

\* C7 (as claimed): once a backend operation of the call has failed and no
\* other operation is in flight, the promise has been rejected.
C7_FailureRejects ==
    (Called /\ failed # {} /\ Quiescent) => promise = "rejected"

\* C8: the promise is resolved only when no per-key operation is in flight:
\* every read, and every write-back dispatched, has completed.
C8_ResolvesAfterAllKeys ==
    Resolved =>
        /\ Quiescent
        /\ OnGM => \A k \in DOMAIN D :
                      /\ task[k] = "resolved"
                      /\ \E op \in ops : op.api = "GM.getValue" /\ op.for = k
        /\ OnLS => \A k \in DOMAIN D :
                      \E op \in ops : op.api = "localStorage.getItem" /\ op.for = k

C8_Witness ==
    /\ Resolved /\ OnGM
    /\ DOMAIN D = Keys
    /\ \E op \in ops : op.api = "GM.setValue" /\ op.for = "a"
    /\ \A op \in ops : op.for = "b" => op.api = "GM.getValue"

\* C9: when localStorage is the backend (the grants asked for are missing)
\* and some default is not a string, the call is rejected with a TypeError
\* and has issued no storage operation: both stores are as they were.
C9_NonStringRejectedBeforeWrite ==
    (OnLS /\ ~AllStrings(D)) =>
        /\ promise = "rejected"
        /\ reason = "TypeError"
        /\ ops = {}
        /\ localStorage = localStorage0
        /\ gmStore = gmStore0

C9_Witness ==
    /\ promise = "rejected" /\ reason = "TypeError"
    /\ GM.live /\ GM.grants = {}
    /\ DOMAIN D = Keys
    /\ D["a"] = Str("d") /\ D["b"] = Num("0")
    /\ localStorage = localStorage0

\* C10 (as claimed): with full grants and an empty store, getValues(D) with
\* one argument resolves to D and leaves D[k] stored at every key k.
C10_DefaultCallPersists ==
    (Resolved /\ FullGrants /\ call.argc = 1 /\ GMEmptyAtCall) =>
        /\ returnedValues = D
        /\ \A k \in DOMAIN D : gmStore[k] = D[k]

\* C10 (amended): with full grants getValues(D) with one argument issues no
\* write and leaves both stores as they were; on an empty store it resolves
\* to D.
C10_DefaultCallPersistsNothing ==
    (Resolved /\ FullGrants /\ call.argc = 1) =>
        /\ gmStore = gmStore0
        /\ localStorage = localStorage0
        /\ \A op \in ops : op.api = "GM.getValue"
        /\ GMEmptyAtCall => returnedValues = D

C10_Witness ==
    /\ Resolved /\ FullGrants /\ call.argc = 1 /\ GMEmptyAtCall
    /\ DOMAIN D = {"a"} /\ D["a"] = Num("0")
    /\ returnedValues = D
    /\ gmStore["a"] = Undef

\* C11: with setDefaults false and the Greasemonkey store as backend, the
\* call issues no write: at every moment of the call both stores hold what
\* they held when it was made.
C11_NoWriteWithoutSetDefaults ==
    (OnGM /\ ~call.setDefaults) =>
        /\ gmStore = gmStore0
        /\ localStorage = localStorage0
        /\ \A op \in ops : op.api = "GM.getValue"
        /\ \A k \in Keys : task[k] # "setValue"

C11_Witness ==
    /\ Resolved /\ OnGM /\ ~call.setDefaults /\ call.argc = 3
    /\ DOMAIN D = Keys
    /\ gmStore0["a"] = Undef /\ gmStore["a"] = Undef
    /\ gmStore0["b"] = Num("0") /\ gmStore["b"] = Num("0")
    /\ returnedValues = D

\* C12 (as claimed): the call reads the Greasemonkey store exactly when the
\* getValue grant is present, whatever setValue and setDefaults are.
C12_BackendFollowsGetValueGrant ==
    Called =>
        \A op \in ops :
            /\ op.api = "GM.getValue" => (GM.live /\ "getValue" \in GM.grants)
            /\ op.api = "localStorage.getItem"
                  => ~(GM.live /\ "getValue" \in GM.grants)

AsymmetricGrants == GM.live /\ GM.grants = {"getValue"}

\* C13 (as claimed): with getValue granted, setValue not, and setDefaults
\* true, the default of a key read as absent is written to localStorage, and
\* once no backend call is in flight and none has failed, the promise has
\* settled or its fan-in is about to resolve it.
C13_AsymmetricGrantsSettle ==
    (Called /\ AsymmetricGrants /\ call.setDefaults) =>
        /\ \A op \in ops : op.api \in {"GM.getValue", "localStorage.setItem"}
        /\ \A k \in Keys : task[k] # "thrown" \/ failed # {}
        /\ (Quiescent /\ failed = {})
              => \/ promise \in {"resolved", "rejected"}
                 \/ allResolved(DOMAIN D)

\* ------------------------------------------------- claims on the proxies
\* The step is an assignment through valuesProxy.
SetStep == nops' = nops + 1 /\ last'.op = "set"
\* The step is a property read through valuesProxy.
GetStep == nops' = nops + 1 /\ last'.op = "get"
\* The step settles the promise of a read through valuesGetProxy.
ReadSettlesStep ==
    /\ gRead'.state \in {"resolved", "rejected"}
    /\ gRead.state = "pending" \/ (nops' = nops + 1 /\ last'.op = "read")
BackendUntouched ==
    /\ gmStore' = gmStore
    /\ localStorage' = localStorage
    /\ gmWrites' = gmWrites
    /\ lsWrites' = lsWrites
\* The step is a property read through valuesGetProxy.
ReadStep == nops' = nops + 1 /\ last'.op = "read"
\* The step is an assignment through valuesGetProxy.
GetProxySetStep == nops' = nops + 1 /\ last'.op = "gset"

\* C14: an assignment through valuesProxy to a key of the object that
\* returns leaves the new value in the object at once and dispatches exactly
\* one backend write, of that value to prefixKey(key, id): a GM.setValue still
\* pending, or a localStorage.setItem.
C14_WriteIsLocalAndDispatchedOnce ==
    [][(SetStep /\ has(target, last'.prop) /\ last'.result # "TypeError") =>
          /\ last'.result = "true"
          /\ target'[last'.prop] = last'.value
          /\ IF wGrants
             THEN /\ gmWrites' = Append(gmWrites,
                        [key |-> prefixKey(last'.prop, pxId), value |-> last'.value,
                         status |-> "pending", prop |-> last'.prop])
                  /\ lsWrites' = lsWrites
                  /\ gmStore' = gmStore /\ localStorage' = localStorage
             ELSE /\ lsWrites' = Append(lsWrites,
                        [key |-> prefixKey(last'.prop, pxId), value |-> last'.value])
                  /\ localStorage' = [localStorage EXCEPT
                        ![prefixKey(last'.prop, pxId)] = last'.value]
                  /\ gmWrites' = gmWrites /\ gmStore' = gmStore]_vars

C14_Witness ==
    /\ last = [op |-> "set", prop |-> "a", value |-> Str("w"), result |-> "true"]
    /\ wGrants /\ pxId = Str("ns")
    /\ gmWrites = <<[key |-> "ns.a", value |-> Str("w"), status |-> "pending",
                     prop |-> "a"]>>
    /\ target["a"] = Str("w")
    /\ gmStore["ns.a"] = Undef

\* C15: an assignment through valuesProxy to a key the object lacks is
\* refused: the trap returns false, the object, the stores and the writes
\* dispatched are unchanged and the callback is not called; no step adds a
\* key to the object.
C15_UnknownKeyRefused ==
    [][/\ (SetStep /\ ~has(target, last'.prop)) =>
             /\ last'.result = "false"
             /\ target' = target
             /\ BackendUntouched
             /\ cbCalls' = cbCalls
       /\ DOMAIN target' = DOMAIN target]_vars

C15_Witness ==
    /\ last = [op |-> "set", prop |-> "b", value |-> Str("w"), result |-> "false"]
    /\ DOMAIN target = {"a"}
    /\ pxCallback /\ cbCalls = <<>>
    /\ wGrants /\ gmWrites = <<>>

\* C16: under the Greasemonkey backend the object holds the value last
\* assigned to a key whatever became of the GM.setValue dispatched for it:
\* pending, stored or rejected by the host.
C16_LocalUpdateSurvivesFailure ==
    \A i \in DOMAIN gmWrites :
        (\A j \in DOMAIN gmWrites : j > i => gmWrites[j].prop # gmWrites[i].prop)
            => /\ has(target, gmWrites[i].prop)
               /\ target[gmWrites[i].prop] = gmWrites[i].value

C16_Witness ==
    /\ Len(gmWrites) = 1
    /\ gmWrites[1].status = "failed"
    /\ gmWrites[1].value = Num("1")
    /\ target[gmWrites[1].prop] = Num("1")
    /\ gmStore[gmWrites[1].key] = Undef

\* C17: under the localStorage backend the assignment of a non-string value
\* to a key of the object throws a TypeError and changes nothing: the object
\* and both stores are as before, no write is dispatched.
C17_NonStringWriteThrows ==
    [][(SetStep /\ ~wGrants /\ has(target, last'.prop)
          /\ typeof(last'.value) # "string") =>
          /\ last'.result = "TypeError"
          /\ target' = target
          /\ BackendUntouched
          /\ cbCalls' = cbCalls]_vars

C17_Witness ==
    /\ last = [op |-> "set", prop |-> "a", value |-> Num("1"), result |-> "TypeError"]
    /\ ~wGrants
    /\ target["a"] = Str("d")
    /\ lsWrites = <<>>
    /\ \A pk \in PKeys : localStorage[pk] = Null

\* C18: a property read through valuesProxy gives the object's own value
\* (undefined for a key it lacks) and touches no backend: the stores, the
\* writes dispatched and the object are unchanged, also when the backend
\* holds another value for the key.
C18_ReadIsLocal ==
    [][GetStep =>
          /\ last'.value = IF has(target, last'.prop) THEN target[last'.prop] ELSE Undef
          /\ target' = target
          /\ BackendUntouched
          /\ gRead' = gRead]_vars

C18_Witness ==
    /\ last = [op |-> "get", prop |-> "a", value |-> Str("d"), result |-> "value"]
    /\ target["a"] = Str("d")
    /\ wGrants /\ pxId = Undef
    /\ gmStore["a"] = Str("x")

\* C19 (as claimed): with a callback, every accepted write has called it
\* once, under either backend.
C19_CallbackOnEveryWrite ==
    pxCallback => Len(cbCalls) = Len(gmWrites) + Len(lsWrites)

\* C19 (amended): with a callback, the i-th GM.setValue dispatched is what
\* the i-th callback call was given, once each; writes to localStorage call
\* nothing, and without a callback nothing is called.
C19_CallbackOnEveryGMWrite ==
    /\ pxCallback => /\ Len(cbCalls) = Len(gmWrites)
                     /\ \A i \in DOMAIN cbCalls : cbCalls[i] = i
    /\ (~pxCallback \/ ~wGrants) => cbCalls = <<>>

C19_Witness ==
    /\ pxCallback /\ wGrants
    /\ Len(gmWrites) = 2
    /\ cbCalls = <<1, 2>>
    /\ gmWrites[1].status = "failed"

\* C20: when the promise of a read through valuesGetProxy of a key of the
\* object settles, and the backend holds a value at prefixKey(key, id), it
\* resolves with that value; it resolves with nothing else, whatever the
\* object holds for the key.
C20_ReadThroughGivesStoredValue ==
    [][(ReadSettlesStep /\ has(target, gRead'.prop)) =>
          LET pk == prefixKey(gRead'.prop, pxId)
              stored == IF gGrants THEN gmStore[pk] ELSE localStorage[pk]
              present == IF gGrants THEN stored # Undef ELSE stored # Null
          IN  /\ present => (gRead'.state = "resolved" /\ gRead'.value = stored)
              /\ gRead'.state = "resolved" => (present /\ gRead'.value = stored)]_vars

C20_Witness ==
    /\ gRead = [state |-> "resolved", prop |-> "a", value |-> Num("0")]
    /\ gGrants /\ pxId = Str("ns")
    /\ target["a"] = Str("d")
    /\ gmStore["ns.a"] = Num("0")

\* C21: a read through valuesGetProxy of a key the object lacks is rejected
\* with no payload and reaches no backend: no read is issued, the stores and
\* the writes dispatched are as before.  A read of a key of the object whose
\* prefixKey(key, id) the backend lacks (GM.getValue gives undefined,
\* localStorage.getItem gives null) is rejected with no payload when it
\* settles.
C21_MissRejects ==
    [][/\ (ReadStep /\ ~has(target, last'.prop)) =>
             /\ gRead' = [state |-> "rejected", prop |-> last'.prop, value |-> Undef]
             /\ gReads' = gReads
             /\ BackendUntouched
       /\ (ReadSettlesStep /\ has(target, gRead'.prop)) =>
             LET pk == prefixKey(gRead'.prop, pxId)
                 missing == IF gGrants THEN gmStore[pk] = Undef
                            ELSE localStorage[pk] = Null
             IN  missing => (gRead'.state = "rejected" /\ gRead'.value = Undef)]_vars

\* After a read that missed in localStorage, a read of a key the object lacks.
C21_Witness ==
    /\ gRead = [state |-> "rejected", prop |-> "b", value |-> Undef]
    /\ DOMAIN target = {"a"}
    /\ ~gGrants /\ pxId = Str("ns")
    /\ gReads = <<[api |-> "localStorage.getItem", key |-> "ns.a"]>>
    /\ localStorage["ns.a"] = Null
    /\ nops = 2

\* C22: an assignment through valuesGetProxy, to any key and of any value, is
\* refused: the trap returns false, the object and both stores are as before,
\* no write, read or delete is dispatched and no callback is called.
C22_GetProxyRefusesWrites ==
    [][GetProxySetStep =>
          /\ last'.result = "false"
          /\ target' = target
          /\ BackendUntouched
          /\ gReads' = gReads /\ gRead' = gRead
          /\ dels' = dels
          /\ cbCalls' = cbCalls]_vars

\* The key is one the object has and the value a string: valuesProxy would
\* have taken the assignment.
C22_Witness ==
    /\ last = [op |-> "gset", prop |-> "a", value |-> Str("w"), result |-> "false"]
    /\ target["a"] = Str("d")
    /\ gmWrites = <<>> /\ lsWrites = <<>>
    /\ \A pk \in PKeys : gmStore[pk] = Undef /\ localStorage[pk] = Null

\* C23: when the GM.getValue call of a pending read through valuesGetProxy
\* settles, resolved or rejected by the host, the promise of the read settles;
\* a host rejection rejects it.
C23_ReadSettlesWithItsBackendCall ==
    [][(gRead.state = "pending" /\ gRead' # gRead) =>
          gRead'.state \in {"resolved", "rejected"}]_vars

\* ------------------------------------------------- claims on deleteValue
\* The step is a call of deleteValue.
DeleteStep == nops' = nops + 1 /\ last'.op = "delete"
\* The step resolves the promise of a deleteValue call.
DeleteResolvesStep == del' # del /\ del'.state = "resolved"

C25_AbsentKeyRejects ==
    [][/\ (DeleteStep /\ ~has(target, last'.prop)) =>
             /\ del'.state = "rejected"
             /\ target' = target
             /\ dels' = dels
             /\ gmStore' = gmStore /\ localStorage' = localStorage
       /\ dels' # dels => (DeleteStep /\ has(target, last'.prop))]_vars

\* The store holds the key, the object does not: nothing is deleted.
C25_Witness ==
    /\ del.state = "rejected" /\ del.prop = "b" /\ del.id = Undef
    /\ DOMAIN target = {"a"}
    /\ deleteGrants(GM)
    /\ gmStore["b"] = Str("x")
    /\ dels = <<>>
    /\ nops = 1

\* C26: once the host has rejected the GM.deleteValue of a deleteValue call,
\* the promise of the call is rejected and the object still has the key.
C26_DeleteFailureRejects ==
    del.host = "failed" => (del.state = "rejected" /\ has(target, del.prop))

\* ------------------------------------------------ claims on getAllValues
\* C27: getAllValues changes neither store, whatever they hold and whatever
\* the host grants: no step of a call changes the Greasemonkey store or
\* localStorage, and the only backend operations it issues are reads.
C27_GetAllValuesWritesNothing ==
    [][/\ gmStore' = gmStore
       /\ localStorage' = localStorage
       /\ \A op \in ops' : op.api \in {"GM.getValue", "localStorage.getItem"}]_vars

\* The names came from GM.listValues, the values are read from localStorage,
\* which lacks the key: the default '' is returned and not stored.
C27_Witness ==
    /\ promise = "resolved"
    /\ listGrants(GM) /\ ~grants
    /\ gmStore["a"] = Str("x")
    /\ localStorage["a"] = Null
    /\ DOMAIN returnedValues = {"a"}
    /\ ops = {Op("localStorage.getItem", "a", "a")}

\* C28: the object getAllValues resolves with has the keys the backend it
\* enumerated holds, each with the value that backend holds for it.
C28_AllStoredValuesReturned ==
    promise = "resolved" =>
        /\ DOMAIN returnedValues =
              (IF listGrants(GM) THEN gmKeys(gmStore) ELSE lsKeys(localStorage))
        /\ \A k \in DOMAIN returnedValues :
              returnedValues[k] = (IF listGrants(GM) THEN gmStore[k] ELSE localStorage[k])

\* ------------------------------------------------- claims on the helpers
\* C29: every call of checkGrants returns true when the host of the moment
\* is a live object that has every grant named, and returns false, without
\* throwing, in every other case; no call changes the host or a store.
C29_CheckGrantsIsTotal ==
    [][/\ \A app \in applied' :
             app.result = IF app.host.live /\ app.grants \subseteq app.host.grants
                          THEN "true" ELSE "false"
       /\ applied' # applied =>
             (GM' = GM /\ gmStore' = gmStore /\ localStorage' = localStorage)]_vars

\* C30: prefixKey(key, id) is key when id is undefined or the empty string
\* and id + "." + key otherwise; two applications with the same non-empty id
\* and the same result have the same key.
C30_PrefixKeyFormatInjective ==
    /\ \A app \in applied :
          app.result = IF app.id \in {Undef, Str("")} THEN app.key
                       ELSE app.id.lit \o "." \o app.key
    /\ \A app1, app2 \in applied :
          (app1.id = app2.id /\ app1.id \notin {Undef, Str("")}
             /\ app1.result = app2.result) => app1.key = app2.key

\* Under the id "ns" the key "a" and the key "ns.a", itself of the form of
\* a prefixed key, go to different physical keys.
C30_Witness ==
    applied = {[key |-> "a", id |-> Str("ns"), result |-> "ns.a"],
               [key |-> "ns.a", id |-> Str("ns"), result |-> "ns.ns.a"]}

\* -------------------------------------------------- claims on xhrPromise
\* C31: xhrPromise called on a host without the xmlHttpRequest grant is
\* rejected with the error 'Missing grant GM.xmlHttpRequest'; no request is
\* dispatched, no event ever arrives.
C31_MissingGrantRejects ==
    (xhr.state # "none" /\ ~(GM.live /\ "xmlHttpRequest" \in GM.grants)) =>
        /\ xhr.state = "rejected"
        /\ xhr.reason = "Missing grant GM.xmlHttpRequest"
        /\ xhr.sent = 0
        /\ xhr.events = <<>>

\* The host object is there, the grant is not.
C31_Witness ==
    /\ GM = [live |-> TRUE, grants |-> {}]
    /\ xhr.state = "rejected"
    /\ xhr.sent = 0

\* C34: with the grant, the promise of xhrPromise settles at most once.  A
\* DONE event that finds it pending resolves it with the response of that
\* event when the readyState seen before was LOADING or more, and rejects it
\* with 'XHR failed' when it was less; an event that is not DONE leaves it as
\* it is; once settled it keeps its state, reason and response.
C34_SettlesOnceOnDone ==
    [][xhr'.events # xhr.events =>
          LET n == Len(xhr'.events)
              readyState == xhr'.events[n]
          IN  /\ (xhr.state = "pending" /\ readyState = DONE /\ xhr.lastState >= 3) =>
                    (xhr'.state = "resolved" /\ xhr'.response = n)
              /\ (xhr.state = "pending" /\ readyState = DONE /\ xhr.lastState < 3) =>
                    (xhr'.state = "rejected" /\ xhr'.reason = "XHR failed")
              /\ readyState # DONE => xhr'.state = xhr.state
              /\ xhr.state \in {"resolved", "rejected"} =>
                    /\ xhr'.state = xhr.state
                    /\ xhr'.reason = xhr.reason
                    /\ xhr'.response = xhr.response
              /\ xhr'.lastState = readyState]_vars

\* Rejected on a DONE that came right after OPENED; the LOADING and DONE
\* that follow call resolve on the settled promise.
C34_Witness ==
    /\ xhr.events = <<1, 4, 3, 4>>
    /\ xhr.state = "rejected"
    /\ xhr.reason = "XHR failed"
    /\ xhr.response = 0

\* ------------------------------------- claims on the order of completion
\* C32: what getValues resolves with and what the stores hold when it
\* resolves are fixed by the call and by the stores at the call, whatever
\* the order in which the GM.getValue and GM.setValue calls of the keys
\* completed: each key has the value found for it at the call, or its
\* default; each physical key holds what it held at the call, or the default
\* of the one key that was written there.
C32_ResultIndependentOfOrder ==
    Resolved =>
        LET id == call.id
            missGM(k) == ~gmFound(gmStore0[gmReadKey(k, id)])
            gmWriters(pk) == {k \in DOMAIN D : /\ missGM(k)
                                                /\ gmSetsDefault(call.setDefaults)
                                                /\ gmWriteKey(k, id) = pk}
            lsWriters(pk) == {k \in DOMAIN D :
                                /\ lsSetsDefault(localStorage0[lsKey(k, id)],
                                                 call.setDefaults)
                                /\ lsKey(k, id) = pk}
        IN  IF grants
            THEN /\ \A k \in DOMAIN D :
                       returnedValues[k] = IF missGM(k) THEN D[k]
                                           ELSE gmStore0[gmReadKey(k, id)]
                 /\ \A pk \in PKeys :
                       IF gmWriters(pk) = {} THEN gmStore[pk] = gmStore0[pk]
                       ELSE \A k \in gmWriters(pk) : gmStore[pk] = D[k]
                 /\ localStorage = localStorage0
            ELSE /\ \A k \in DOMAIN D :
                       returnedValues[k] = Coalesce(localStorage0[lsKey(k, id)], D[k])
                 /\ \A pk \in PKeys :
                       IF lsWriters(pk) = {} THEN localStorage[pk] = localStorage0[pk]
                       ELSE \A k \in lsWriters(pk) : localStorage[pk] = String(D[k])
                 /\ gmStore = gmStore0

\* Two keys, both missing, both defaults written back by the host.
C32_Witness ==
    /\ Resolved /\ grants
    /\ call.setDefaults
    /\ DOMAIN D = {"a", "b"}
    /\ D["a"] # D["b"]
    /\ GMEmptyAtCall
    /\ gmStore["a"] = D["a"] /\ gmStore["b"] = D["b"]
    /\ returnedValues = D

\* C33: under the Greasemonkey backend the call of getValues issues one
\* GM.getValue per key of the defaults, all of them before any has settled,
\* and nothing else.  Until the caller goes on no further read is issued;
\* a key gets a GM.setValue only when its read has settled, and once; a key
\* whose call has resolved or failed issues nothing more, and a failed
\* call leaves its key failed.
C33_FanOutOnceNoRetry ==
    [][/\ (calls' = calls + 1 /\ grants') =>
             /\ \A k \in DOMAIN call'.defaults : task'[k] = "getValue"
             /\ ops' = {Op("GM.getValue", prefixKey(k, call'.id), k) :
                          k \in DOMAIN call'.defaults}
       /\ (promise = "pending" /\ promise' # "none") =>
             /\ {op \in ops' : op.api = "GM.getValue"}
                   = {op \in ops : op.api = "GM.getValue"}
             /\ \A op \in ops' \ ops :
                   /\ op.api = "GM.setValue"
                   /\ task[op.for] = "getValue" /\ task'[op.for] = "setValue"
             /\ \A k \in Keys :
                   /\ task'[k] = "getValue" => task[k] = "getValue"
                   /\ task'[k] = "setValue" => task[k] \in {"getValue", "setValue"}
                   /\ task[k] \in {"resolved", "thrown", "none"} => task'[k] = task[k]
             /\ \A op \in failed' : task'[op.for] = "thrown"]_vars

\* Both reads are out, neither has settled.
C33_Witness ==
    /\ promise = "pending" /\ grants
    /\ DOMAIN D = {"a", "b"}
    /\ call.id = Str("ns")
    /\ task = [k \in Keys |-> "getValue"]
    /\ ops = {Op("GM.getValue", "ns.a", "a"), Op("GM.getValue", "ns.b", "b")}

\* --------------------------------------------- claims on getConfigValues
\* C35: when the promise of getConfigValues is resolved every option has
\* been retrieved, none is still with the host, and the object it resolved
\* with holds the value config ends with for every option.
C35_ResolvesAfterEveryOption ==
    promise = "resolved" =>
        /\ \A option \in DOMAIN call.defaults :
              optionsRetrieved[option] /\ task[option] = "resolved"
        /\ returnedValues = config

\* ------------------------------------- claims on valuesProxy with getValues
\* The write of the string the object holds at k has landed at the physical
\* key of k before getValues was called.
Landed(k) ==
    /\ k \in DOMAIN target
    /\ typeof(target[k]) = "string"
    /\ IF wGrants
       THEN /\ \E i \in 1..Len(gmWrites) :
                   /\ gmWrites[i].prop = k
                   /\ gmWrites[i].status = "done"
                   /\ gmWrites[i].value = target[k]
            /\ gmStore0[prefixKey(k, pxId)] = target[k]
       ELSE /\ \E i \in 1..Len(lsWrites) :
                   /\ lsWrites[i].key = prefixKey(k, pxId)
                   /\ lsWrites[i].value = target[k]
            /\ localStorage0[prefixKey(k, pxId)] = target[k]

\* C36: a string written to k through valuesProxy(values, id) whose backend
\* write has landed is what a following getValues(D, id) with k in D, on the
\* same backend, resolves with at k.
C36_RoundTrip ==
    (Resolved /\ call.id = pxId /\ grants = wGrants) =>
        \A k \in DOMAIN D : Landed(k) => returnedValues[k] = target[k]

\* ------------------------------------- claims on getValues with deleteValue
\* C37: from empty storage, once getValues(D, id, true) has resolved and
\* deleteValue(result, k, id) has resolved, neither store holds an entry for
\* k, at the prefixed key or at the bare key.
C37_LoadThenDeleteLeavesNothing ==
    (Resolved /\ call.setDefaults /\ del.state = "resolved" /\ del.id = call.id) =>
        \A pk \in {del.prop, prefixKey(del.prop, del.id)} :
            gmStore[pk] = Undef /\ localStorage[pk] = Null

\* ----------------------------------- claims on valuesProxy with deleteValue
\* C38: under the extension backend, once deleteValue(values, k, id) has
\* resolved and every GM.setValue the proxy dispatched has settled, k is
\* absent from the object exactly when its physical key is absent from the
\* store.
C38_DeleteAndWritesAgree ==
    (wGrants /\ del.state = "resolved" /\ del.host = "done" /\ WritesSettled) =>
        (~has(target, del.prop) <=> gmStore[prefixKey(del.prop, pxId)] = Undef)

\* ------------------------------------- claims on valuesProxy, ordered host
\* The proxy accepted a write to k.
Written(k) ==
    \/ \E i \in 1..Len(gmWrites) : gmWrites[i].prop = k
    \/ \E i \in 1..Len(lsWrites) : lsWrites[i].key = prefixKey(k, pxId)

\* What the backend of the proxy holds for k.
Backend(k) ==
    IF wGrants THEN gmStore[prefixKey(k, pxId)] ELSE localStorage[prefixKey(k, pxId)]

\* C39: with one valuesProxy as the only writer and a host that applies the
\* writes in dispatch order, once every dispatched write has settled the
\* backend holds at prefixKey(k, id) the value the object holds at k, for
\* every k written, unless a write to k failed.
C39_BackendMirrorsObject ==
    WritesSettled =>
        \A k \in Keys : Written(k) =>
            \/ Backend(k) = target[k]
            \/ \E i \in 1..Len(gmWrites) :
                  gmWrites[i].prop = k /\ gmWrites[i].status = "failed"

\* Two writes to one key under a namespace have both been stored, the second
\* over the first.
C39_Witness ==
    /\ wGrants
    /\ pxId = Str("ns")
    /\ Len(gmWrites) = 2
    /\ \A i \in 1..2 : gmWrites[i].prop = "a" /\ gmWrites[i].status = "done"
    /\ gmWrites[1].value # gmWrites[2].value
    /\ gmStore["ns.a"] = gmWrites[2].value
    /\ target["a"] = gmWrites[2].value

\* ------------------------------------- claims on the defaults of getValues
\* C40: from the call on, whether the promise is pending, resolved or
\* rejected and under either backend, the defaults object holds the keys and
\* values it was passed with, also after the script has assigned to the
\* object the promise resolved with.
C40_DefaultsNeverMutated ==
    Called => config = call.defaults

\* The promise resolved and the script has overwritten a key of the result;
\* the defaults object still holds its own value there.
C40_Witness ==
    /\ Resolved
    /\ last.op = "mutate"
    /\ last.prop \in DOMAIN config
    /\ returnedValues[last.prop] = last.value
    /\ config[last.prop] # last.value
    /\ config = call.defaults

====
